---------------------------- MODULE Spec2Model ----------------------------
(***************************************************************************)
(* A model of software/tools/diagnostics/chaos_diagnostic.py.              *)
(*                                                                         *)
(*   Spec         analyze_chaos (lines 99-280), run on the metrics that    *)
(*                numpy/scipy compute from the series                      *)
(*   SpecSeries   analyze_chaos lines 117-158 on a concrete 4-sample       *)
(*                series (statistics, pre-check, spectrum, normalisations) *)
(*   SpecConvert  raw_to_voltage (lines 29-44)                             *)
(*   SpecCapture  capture_data (lines 46-97)                               *)
(*                                                                         *)
(* Real numbers are exact rationals [n, d]; the value with d = 0 is the    *)
(* NaN that numpy's 0.0/0.0 yields.  Floating-point rounding is not        *)
(* modelled.                                                               *)
(***************************************************************************)
EXTENDS Integers, Sequences, FiniteSets, TLC

VARIABLES
    \* analyze_chaos
    pc, p2p, std, n_peaks, top3_power, dominant_freq, n_sec_peaks,
    score_spectral, score_power, score_autocorr, score_dynamic,
    total_score, branch, tier, tip, ret, trace,
    \* analyze_chaos on a concrete series
    spc, data, s_mean, s_p2p, power_sq, total_power_zero, acf0, divisions, sret,
    \* raw_to_voltage
    cpc, raw, mask, result,
    \* capture_data
    kpc, idx, raw_data, start, now, elapsed, adc, interrupted, completed, kret

analyzeVars == <<pc, p2p, std, n_peaks, top3_power, dominant_freq, n_sec_peaks,
                 score_spectral, score_power, score_autocorr, score_dynamic,
                 total_score, branch, tier, tip, ret, trace>>
seriesVars  == <<spc, data, s_mean, s_p2p, power_sq, total_power_zero, acf0,
                 divisions, sret>>
convertVars == <<cpc, raw, mask, result>>
captureVars == <<kpc, idx, raw_data, start, now, elapsed, adc, interrupted,
                 completed, kret>>
vars == <<analyzeVars, seriesVars, convertVars, captureVars>>

----------------------------------------------------------------------------
(* Exact rational arithmetic for the floats of the program.                 *)

Abs(x) == IF x < 0 THEN -x ELSE x

RECURSIVE GCD(_, _)
GCD(a, b) == IF b = 0 THEN a ELSE GCD(b, a % b)

NaN == [n |-> 0, d |-> 0]

\* A local that has not been assigned yet.
Unset == [n |-> -1, d |-> 0]

IsNumber(a) == a.d > 0

R(n, d) ==
    IF d = 0 THEN NaN
    ELSE LET g == GCD(Abs(n), Abs(d))
             s == IF d < 0 THEN -1 ELSE 1
         IN  [n |-> s * (n \div g), d |-> s * (d \div g)]

I(k) == [n |-> k, d |-> 1]

RAdd(a, b) == IF IsNumber(a) /\ IsNumber(b) THEN R(a.n * b.d + b.n * a.d, a.d * b.d) ELSE NaN
RNeg(a)    == IF IsNumber(a) THEN [n |-> -a.n, d |-> a.d] ELSE NaN
RSub(a, b) == RAdd(a, RNeg(b))
RMul(a, b) == IF IsNumber(a) /\ IsNumber(b) THEN R(a.n * b.n, a.d * b.d) ELSE NaN
\* numpy float division: x / 0.0 with x = 0 is NaN (the only zero-divisor case
\* the model evaluates).
RDiv(a, b) == IF IsNumber(a) /\ IsNumber(b) THEN R(a.n * b.d, a.d * b.n) ELSE NaN

\* Comparisons; every comparison with NaN is false, as in IEEE 754.
RLt(a, b) == IsNumber(a) /\ IsNumber(b) /\ a.n * b.d < b.n * a.d
RLe(a, b) == IsNumber(a) /\ IsNumber(b) /\ a.n * b.d <= b.n * a.d
RGt(a, b) == RLt(b, a)
RGe(a, b) == RLe(b, a)

\* Python's max(a, b): a unless b > a.
PyMax(a, b) == IF RGt(b, a) THEN b ELSE a

----------------------------------------------------------------------------
(* analyze_chaos: the rubric (lines 173-220).  Each rubric yields the       *)
(* branch of the if/elif chain that ran (1 = first) and the sub-score.      *)

ScoreSpectral_LeBoundary(np) ==
    IF np <= 100 THEN
        [branch |-> 1, score |-> RMul(RDiv(I(np), I(100)), I(15))]
    ELSE IF np <= 500 THEN
        [branch |-> 2, score |-> RAdd(I(15), RMul(RDiv(I(np - 100), I(400)), I(10)))]
    ELSE IF np <= 2000 THEN
        [branch |-> 3, score |-> I(30)]
    ELSE
        [branch |-> 4,
         score |-> PyMax(I(20), RSub(I(30), RMul(RDiv(I(np - 2000), I(500)), I(5))))]

ScoreSpectral(np) ==
    IF np < 100 THEN
        [branch |-> 1, score |-> RMul(RDiv(I(np), I(100)), I(15))]
    ELSE IF np < 500 THEN
        [branch |-> 2, score |-> RAdd(I(15), RMul(RDiv(I(np - 100), I(400)), I(10)))]
    ELSE IF np <= 2000 THEN
        [branch |-> 3, score |-> I(30)]
    ELSE
        [branch |-> 4,
         score |-> PyMax(I(20), RSub(I(30), RMul(RDiv(I(np - 2000), I(500)), I(5))))]

ScorePower_GeBoundary(t3) ==
    IF RGe(t3, R(7, 10)) THEN [branch |-> 1, score |-> I(0)]
    ELSE IF RGe(t3, R(1, 10)) THEN [branch |-> 2, score |-> I(5)]
    ELSE IF RGe(t3, R(1, 1000)) THEN [branch |-> 3, score |-> I(25)]
    ELSE [branch |-> 4, score |-> I(15)]

ScorePower(t3) ==
    IF RGt(t3, R(7, 10)) THEN [branch |-> 1, score |-> I(0)]
    ELSE IF RGt(t3, R(1, 10)) THEN [branch |-> 2, score |-> I(5)]
    ELSE IF RGe(t3, R(1, 1000)) THEN [branch |-> 3, score |-> I(25)]
    ELSE [branch |-> 4, score |-> I(15)]

ScoreAutocorr(ns) ==
    IF ns = 0 THEN [branch |-> 1, score |-> I(25)]
    ELSE IF ns <= 3 THEN [branch |-> 2, score |-> I(20)]
    ELSE IF ns <= 7 THEN [branch |-> 3, score |-> I(10)]
    ELSE [branch |-> 4, score |-> I(0)]

ScoreDynamic_NoClamp(s) ==
    IF RLt(s, R(5, 100)) THEN
        [branch |-> 1, score |-> RMul(RDiv(s, R(5, 100)), I(5))]
    ELSE
        [branch |-> 2,
         score |-> RAdd(I(5), RMul(RDiv(RSub(s, R(5, 100)), R(10, 100)), I(10)))]

ScoreDynamic(s) ==
    IF RLt(s, R(5, 100)) THEN
        [branch |-> 1, score |-> RMul(RDiv(s, R(5, 100)), I(5))]
    ELSE IF RLt(s, R(15, 100)) THEN
        [branch |-> 2,
         score |-> RAdd(I(5), RMul(RDiv(RSub(s, R(5, 100)), R(10, 100)), I(10)))]
    ELSE IF RLe(s, R(20, 100)) THEN [branch |-> 3, score |-> I(20)]
    ELSE IF RLe(s, R(25, 100)) THEN [branch |-> 4, score |-> I(15)]
    ELSE [branch |-> 5, score |-> I(10)]

\* The assessment tier (lines 247-276), chosen high to low.
Tier_GtBoundary(total) ==
    IF RGt(total, I(85)) THEN "perfect"
    ELSE IF RGt(total, I(70)) THEN "strong"
    ELSE IF RGt(total, I(50)) THEN "weak"
    ELSE IF RGt(total, I(20)) THEN "periodic"
    ELSE "none"

Tier(total) ==
    IF RGe(total, I(85)) THEN "perfect"
    ELSE IF RGe(total, I(70)) THEN "strong"
    ELSE IF RGe(total, I(50)) THEN "weak"
    ELSE IF RGe(total, I(20)) THEN "periodic"
    ELSE "none"

\* The tip of the strong-chaos tier (lines 253-258).
StrongTip_SpectralFirst(sa, ss) ==
    IF RLt(ss, I(25)) THEN "increase complexity"
    ELSE IF RLt(sa, I(20)) THEN "reduce periodicity"
    ELSE "nearly perfect"

StrongTip(sa, ss) ==
    IF RLt(sa, I(20)) THEN "reduce periodicity"
    ELSE IF RLt(ss, I(25)) THEN "increase complexity"
    ELSE "nearly perfect"

\* The tip printed with the tier (lines 247-276).
Tip(t, sa, ss, ns, df) ==
    CASE t = "perfect"  -> "remember this position"
      [] t = "strong"   -> StrongTip(sa, ss)
      [] t = "weak"     -> IF ns > 5 THEN "reduce periodicity" ELSE "continue adjusting"
      [] t = "periodic" -> IF df < 1000 THEN "turn left" ELSE "turn right"
      [] OTHER          -> "turn to center"

----------------------------------------------------------------------------
(* analyze_chaos: the inputs.  The series reaches the rubric only through   *)
(* the metrics numpy/scipy compute from it; these are drawn from sets that  *)
(* hold both sides of every rubric threshold.                               *)

\* Secondary autocorrelation peaks counted (len(sec_peaks), line 165).
MaxSecPeaks == 8

\* Peak counts beyond the optimum, in blocks of 500 (line 182).
MaxPeakBlocks == 3

P2PValues == {I(0), R(1, 10), R(299, 1000), R(3, 10), R(6, 10), I(2)}

StdValues == {I(0), R(2, 100), R(49, 1000), R(5, 100), R(1, 10), R(149, 1000),
              R(15, 100), R(18, 100), R(2, 10), R(201, 1000), R(25, 100),
              R(251, 1000), R(5, 10)}

\* The standard deviation of a series is zero exactly when its range is, and
\* is at most half the range.
Stats == {s \in [p2p : P2PValues, std : StdValues] :
             /\ (s.std = I(0)) <=> (s.p2p = I(0))
             /\ RLe(RMul(I(2), s.std), s.p2p)}

PeakCounts == {0, 1, 50, 99, 100, 101, 300, 499, 500, 800, 2000, 2001, 2300}
              \cup {2000 + 500 * k : k \in 1..MaxPeakBlocks}

\* top3_power = sum(top 3) / total_power (line 147): a fraction of [0, 1], or
\* NaN when total_power is 0.
Top3Values == {I(0), R(9, 10000), R(1, 1000), R(2, 100), R(1, 10), R(1001, 10000),
               R(1, 2), R(7, 10), R(7001, 10000), R(95, 100), I(1), NaN}

DominantFreqs == {999, 1000}

SecPeakCounts == 0..MaxSecPeaks

AnalyzeInit ==
    /\ pc = "stats"
    /\ \E s \in Stats : p2p = s.p2p /\ std = s.std
    /\ n_peaks = -1
    /\ top3_power = Unset
    /\ dominant_freq = -1
    /\ n_sec_peaks = -1
    /\ score_spectral = Unset
    /\ score_power = Unset
    /\ score_autocorr = Unset
    /\ score_dynamic = Unset
    /\ total_score = Unset
    /\ branch = <<0, 0, 0, 0>>
    /\ tier = "unset"
    /\ tip = "unset"
    /\ ret = Unset
    /\ trace = {}

\* The state of analyze_chaos when another function is the one under study.
AnalyzeIdle ==
    /\ pc = "idle"
    /\ p2p = Unset /\ std = Unset
    /\ n_peaks = -1 /\ top3_power = Unset /\ dominant_freq = -1 /\ n_sec_peaks = -1
    /\ score_spectral = Unset /\ score_power = Unset
    /\ score_autocorr = Unset /\ score_dynamic = Unset
    /\ total_score = Unset
    /\ branch = <<0, 0, 0, 0>>
    /\ tier = "unset" /\ tip = "unset" /\ ret = Unset /\ trace = {}

\* Lines 117-122: the basic statistics.
BasicStatistics ==
    /\ pc = "stats"
    /\ pc' = "precheck"
    /\ trace' = trace \cup {"stats"}
    /\ UNCHANGED <<p2p, std, n_peaks, top3_power, dominant_freq, n_sec_peaks,
                   score_spectral, score_power, score_autocorr, score_dynamic,
                   total_score, branch, tier, tip, ret>>
    /\ UNCHANGED <<seriesVars, convertVars, captureVars>>

\* Lines 124-127: the signal quality check.
WeakSignal_Le(pp) == RLe(pp, R(3, 10))

WeakSignal(pp) == RLt(pp, R(3, 10))

PreCheck ==
    /\ pc = "precheck"
    /\ trace' = trace \cup {"precheck"}
    /\ IF WeakSignal(p2p)
       THEN pc' = "done" /\ ret' = I(0)
       ELSE pc' = "fft" /\ ret' = ret
    /\ UNCHANGED <<p2p, std, n_peaks, top3_power, dominant_freq, n_sec_peaks,
                   score_spectral, score_power, score_autocorr, score_dynamic,
                   total_score, branch, tier, tip>>
    /\ UNCHANGED <<seriesVars, convertVars, captureVars>>

\* Lines 129-149: the spectrum, its dominant frequency, its peaks and the
\* power held by the three strongest bins.
FFTAnalysis ==
    /\ pc = "fft"
    /\ pc' = "autocorr"
    /\ trace' = trace \cup {"fft"}
    /\ n_peaks' \in PeakCounts
    /\ top3_power' \in Top3Values
    /\ dominant_freq' \in DominantFreqs
    /\ UNCHANGED <<p2p, std, n_sec_peaks,
                   score_spectral, score_power, score_autocorr, score_dynamic,
                   total_score, branch, tier, tip, ret>>
    /\ UNCHANGED <<seriesVars, convertVars, captureVars>>

\* Lines 151-167: the normalised autocorrelation and its secondary peaks.
AutocorrAnalysis ==
    /\ pc = "autocorr"
    /\ pc' = "score"
    /\ trace' = trace \cup {"autocorr"}
    /\ n_sec_peaks' \in SecPeakCounts
    /\ UNCHANGED <<p2p, std, n_peaks, top3_power, dominant_freq,
                   score_spectral, score_power, score_autocorr, score_dynamic,
                   total_score, branch, tier, tip, ret>>
    /\ UNCHANGED <<seriesVars, convertVars, captureVars>>

\* Line 220.
Total(ss, sp, sa, sd) == RAdd(RAdd(RAdd(ss, sp), sa), sd)

\* Lines 169-220: the four sub-scores and their sum.
ScoreCalculation ==
    /\ pc = "score"
    /\ pc' = "assess"
    /\ trace' = trace \cup {"score"}
    /\ LET ss == ScoreSpectral(n_peaks)
           sp == ScorePower(top3_power)
           sa == ScoreAutocorr(n_sec_peaks)
           sd == ScoreDynamic(std)
       IN  /\ score_spectral' = ss.score
           /\ score_power' = sp.score
           /\ score_autocorr' = sa.score
           /\ score_dynamic' = sd.score
           /\ branch' = <<ss.branch, sp.branch, sa.branch, sd.branch>>
           /\ total_score' = Total(ss.score, sp.score, sa.score, sd.score)
    /\ UNCHANGED <<p2p, std, n_peaks, top3_power, dominant_freq, n_sec_peaks,
                   tier, tip, ret>>
    /\ UNCHANGED <<seriesVars, convertVars, captureVars>>

\* Lines 222-280: the report, the assessment and the return.
Assessment ==
    /\ pc = "assess"
    /\ pc' = "done"
    /\ trace' = trace \cup {"assess"}
    /\ tier' = Tier(total_score)
    /\ tip' = Tip(Tier(total_score), score_autocorr, score_spectral,
                  n_sec_peaks, dominant_freq)
    /\ ret' = total_score
    /\ UNCHANGED <<p2p, std, n_peaks, top3_power, dominant_freq, n_sec_peaks,
                   score_spectral, score_power, score_autocorr, score_dynamic,
                   total_score, branch>>
    /\ UNCHANGED <<seriesVars, convertVars, captureVars>>

AnalyzeNext ==
    \/ BasicStatistics
    \/ PreCheck
    \/ FFTAnalysis
    \/ AutocorrAnalysis
    \/ ScoreCalculation
    \/ Assessment

----------------------------------------------------------------------------
(* analyze_chaos, lines 117-158, on a concrete series: the statistics, the  *)
(* pre-check, the spectrum and the two normalising divisions.               *)

\* The sample levels are k/10 V, k in 0..MaxLevel.
MaxLevel == 4

Levels == {R(k, 10) : k \in 0..MaxLevel}

\* The indices of a four-sample series, the shortest for which
\* max_lag = min(2000, len(data)//4) leaves autocorr[0] in the slice.
SampleIdx == 0..3

NumSamples(x) == Cardinality(DOMAIN x)

RECURSIVE SumTo(_, _)
\* f[0] + ... + f[k]
SumTo(f, k) == IF k < 0 THEN I(0) ELSE RAdd(SumTo(f, k - 1), f[k])

Sum(f) == SumTo(f, NumSamples(f) - 1)

\* np.mean (line 118)
Mean(x) == RDiv(Sum(x), I(NumSamples(x)))

RMaxOf(x) == CHOOSE v \in {x[i] : i \in DOMAIN x} : \A i \in DOMAIN x : RLe(x[i], v)
RMinOf(x) == CHOOSE v \in {x[i] : i \in DOMAIN x} : \A i \in DOMAIN x : RLe(v, x[i])

\* np.max(data) - np.min(data) (line 120)
PeakToPeak(x) == RSub(RMaxOf(x), RMinOf(x))

\* data - mean (lines 133, 154)
Centered(x) == [i \in DOMAIN x |-> RSub(x[i], Mean(x))]

\* exp(-2 pi i m / 4) = (-i)^m, the twiddle factors of a 4-point transform.
TwiddleRe(m) == CASE m % 4 = 0 -> 1 [] m % 4 = 2 -> -1 [] OTHER -> 0
TwiddleIm(m) == CASE m % 4 = 1 -> -1 [] m % 4 = 3 -> 1 [] OTHER -> 0

\* |yf[k]|^2 for yf = fft(x) (line 133).
BinPowerSq(x, k) ==
    LET re == Sum([j \in DOMAIN x |-> RMul(x[j], I(TwiddleRe(j * k)))])
        im == Sum([j \in DOMAIN x |-> RMul(x[j], I(TwiddleIm(j * k)))])
    IN  RAdd(RMul(re, re), RMul(im, im))

\* The squares of the one-sided magnitudes |yf[:n//2]| (line 135); power[k]
\* is 2/n times the square root of entry k.
PowerSq(x) == [k \in 0..((NumSamples(x) \div 2) - 1) |-> BinPowerSq(Centered(x), k)]

\* total_power = np.sum(power) (line 146) is a sum of non-negative terms: it
\* is 0 exactly when every bin is.
TotalPowerZero(psq) == \A k \in DOMAIN psq : psq[k] = I(0)

\* autocorr[0] after the slice of line 157: the zero-lag product sum.
ZeroLagAutocorr(x) ==
    LET c == Centered(x) IN Sum([i \in DOMAIN x |-> RMul(c[i], c[i])])

SeriesInit ==
    /\ spc = "stats"
    /\ data \in [SampleIdx -> Levels]
    /\ s_mean = Unset
    /\ s_p2p = Unset
    /\ power_sq = <<>>
    /\ total_power_zero = FALSE
    /\ acf0 = Unset
    /\ divisions = {}
    /\ sret = Unset

SeriesIdle ==
    /\ spc = "idle"
    /\ data = <<>>
    /\ s_mean = Unset /\ s_p2p = Unset
    /\ power_sq = <<>> /\ total_power_zero = FALSE
    /\ acf0 = Unset /\ divisions = {} /\ sret = Unset

\* Lines 117-122.
SeriesStatistics ==
    /\ spc = "stats"
    /\ spc' = "precheck"
    /\ s_mean' = Mean(data)
    /\ s_p2p' = PeakToPeak(data)
    /\ UNCHANGED <<data, power_sq, total_power_zero, acf0, divisions, sret>>
    /\ UNCHANGED <<analyzeVars, convertVars, captureVars>>

\* Lines 124-127.
SeriesPreCheck ==
    /\ spc = "precheck"
    /\ IF WeakSignal(s_p2p)
       THEN spc' = "done" /\ sret' = I(0)
       ELSE spc' = "fft" /\ sret' = sret
    /\ UNCHANGED <<data, s_mean, s_p2p, power_sq, total_power_zero, acf0, divisions>>
    /\ UNCHANGED <<analyzeVars, convertVars, captureVars>>

\* Lines 132-146: the spectrum and its total power.
SeriesSpectrum ==
    /\ spc = "fft"
    /\ spc' = "top3"
    /\ power_sq' = PowerSq(data)
    /\ total_power_zero' = TotalPowerZero(PowerSq(data))
    /\ UNCHANGED <<data, s_mean, s_p2p, acf0, divisions, sret>>
    /\ UNCHANGED <<analyzeVars, convertVars, captureVars>>

\* Line 147: top3_power = np.sum(np.sort(power)[-3:]) / total_power.
SeriesTop3 ==
    /\ spc = "top3"
    /\ spc' = "autocorr"
    /\ divisions' = divisions \cup {[by |-> "total_power", zero |-> total_power_zero]}
    /\ UNCHANGED <<data, s_mean, s_p2p, power_sq, total_power_zero, acf0, sret>>
    /\ UNCHANGED <<analyzeVars, convertVars, captureVars>>

\* Lines 154-158: autocorr = autocorr / autocorr[0].
SeriesAutocorr ==
    /\ spc = "autocorr"
    /\ spc' = "scoring"
    /\ acf0' = ZeroLagAutocorr(data)
    /\ divisions' = divisions \cup
          {[by |-> "autocorr[0]", zero |-> (ZeroLagAutocorr(data) = I(0))]}
    /\ UNCHANGED <<data, s_mean, s_p2p, power_sq, total_power_zero, sret>>
    /\ UNCHANGED <<analyzeVars, convertVars, captureVars>>

SeriesNext ==
    \/ SeriesStatistics
    \/ SeriesPreCheck
    \/ SeriesSpectrum
    \/ SeriesTop3
    \/ SeriesAutocorr

----------------------------------------------------------------------------
(* raw_to_voltage (lines 29-44).  The codes are two's-complement words of   *)
(* WordBits bits; the program's words have 32, and 0x80000000 and           *)
(* 0x7FFFFFFF are FullScale and MaxCode here.                               *)

WordBits == 12

\* REF (line 24)
REF == 5

\* 0x80000000 (line 42)
FullScale == 2 ^ (WordBits - 1)

\* 0x7FFFFFFF (line 43)
MaxCode == FullScale - 1

\* The most negative code of the int32 array, 0x80000000 as stored.
MinCode == -FullScale

Codes == MinCode..MaxCode

\* raw >> k on a signed integer array shifts arithmetically: floor(raw / 2^k).
ShiftRight(x, k) == x \div (2 ^ k)

\* Line 40: mask = (raw >> 31) == 1
SignMask(rw) == [i \in DOMAIN rw |-> ShiftRight(rw[i], WordBits - 1) = 1]

\* Line 42: -(ref * 2 - raw[mask] * ref / 0x80000000)
NegativeBranch(code, ref) ==
    RNeg(RSub(RMul(ref, I(2)), RDiv(RMul(I(code), ref), I(FullScale))))

\* Line 43: raw[~mask] * ref / 0x7FFFFFFF
PositiveBranch_FullScaleDivisor(code, ref) == RDiv(RMul(I(code), ref), I(FullScale))

PositiveBranch(code, ref) == RDiv(RMul(I(code), ref), I(MaxCode))

\* Lines 40-44 as one function, as capture_data calls it (line 91).
RawToVoltage(rw, ref) ==
    [i \in DOMAIN rw |-> IF SignMask(rw)[i] THEN NegativeBranch(rw[i], ref)
                                             ELSE PositiveBranch(rw[i], ref)]

\* The codes at and next to the ends of the range and zero.
EdgeCodes == {MinCode, MinCode + 1, -1, 0, 1, MaxCode}

\* The longest array of edge codes converted.
MaxArrayLen == 3

RawArrays == {<<c>> : c \in Codes} \cup UNION {[1..n -> EdgeCodes] : n \in 0..MaxArrayLen}

ConvertInit ==
    /\ cpc = "mask"
    /\ raw \in RawArrays
    /\ mask = <<>>
    /\ result = <<>>

ConvertIdle ==
    /\ cpc = "idle"
    /\ raw = <<>> /\ mask = <<>> /\ result = <<>>

\* Lines 40-41: the mask and the zero-filled result.
ConvertMask ==
    /\ cpc = "mask"
    /\ cpc' = "negative"
    /\ mask' = SignMask(raw)
    /\ result' = [i \in DOMAIN raw |-> I(0)]
    /\ UNCHANGED raw
    /\ UNCHANGED <<analyzeVars, seriesVars, captureVars>>

\* Line 42: the elements the mask selects.
ConvertNegative ==
    /\ cpc = "negative"
    /\ cpc' = "positive"
    /\ result' = [i \in DOMAIN raw |->
                    IF mask[i] THEN NegativeBranch(raw[i], I(REF)) ELSE result[i]]
    /\ UNCHANGED <<raw, mask>>
    /\ UNCHANGED <<analyzeVars, seriesVars, captureVars>>

\* Lines 43-44: the other elements, and the return.
ConvertPositive ==
    /\ cpc = "positive"
    /\ cpc' = "done"
    /\ result' = [i \in DOMAIN raw |->
                    IF ~mask[i] THEN PositiveBranch(raw[i], I(REF)) ELSE result[i]]
    /\ UNCHANGED <<raw, mask>>
    /\ UNCHANGED <<analyzeVars, seriesVars, captureVars>>

ConvertNext ==
    \/ ConvertMask
    \/ ConvertNegative
    \/ ConvertPositive

----------------------------------------------------------------------------
(* capture_data (lines 46-97).  Every time.time() call reads a clock that   *)
(* has advanced since the previous call, so elapsed times are positive.     *)
(* KeyboardInterrupt is modelled inside the try block (lines 74-81), where  *)
(* the handler of line 83 catches it.                                       *)

\* EXPECTED_SAMPLES (line 27), 35000 in the program.
EXPECTED_SAMPLES == 3

\* SAMPLE_DURATION (line 25), in seconds.
SAMPLE_DURATION == 3

\* Clock ticks per second, and the most the clock advances between two reads.
TicksPerSecond == 2

MaxClockStep == 2

Duration == SAMPLE_DURATION * TicksPerSecond

\* What ADS1263_Read_ADC_Data returns into the int32 array.
SampleCodes == {MinCode, 0, MaxCode}

ClockSteps == 1..MaxClockStep

TryBlock == {"test", "wait", "read", "incr", "elapsed"}

CaptureLoop == {"test", "wait", "read", "incr"}

NoReturn == [kind |-> "pending"]

CaptureInit ==
    /\ kpc = "init"
    /\ idx = 0
    /\ raw_data = <<>>
    /\ start = 0
    /\ now = 0
    /\ elapsed = 0
    /\ adc = "closed"
    /\ interrupted = "no"
    /\ completed = 0
    /\ kret = NoReturn

CaptureIdle ==
    /\ kpc = "idle"
    /\ idx = 0 /\ raw_data = <<>> /\ start = 0 /\ now = 0 /\ elapsed = 0
    /\ adc = "closed" /\ interrupted = "no" /\ completed = 0 /\ kret = NoReturn

\* Lines 57-60: ADS1263_init_ADC1 fails and (None, None) is returned, or
\* succeeds.
InitADC ==
    /\ kpc = "init"
    /\ \/ /\ kpc' = "returned"
          /\ kret' = [kind |-> "init failed"]
          /\ adc' = adc
       \/ /\ kpc' = "configure"
          /\ adc' = "open"
          /\ kret' = kret
    /\ UNCHANGED <<idx, raw_data, start, now, elapsed, interrupted, completed>>
    /\ UNCHANGED <<analyzeVars, seriesVars, convertVars>>

\* Lines 62-72: mode and channel, the zero-filled array, the start time.
Configure ==
    /\ kpc = "configure"
    /\ kpc' = "test"
    /\ raw_data' = [i \in 1..EXPECTED_SAMPLES |-> 0]
    /\ \E d \in ClockSteps : now' = now + d
    /\ start' = now'
    /\ idx' = 0
    /\ UNCHANGED <<elapsed, adc, interrupted, completed, kret>>
    /\ UNCHANGED <<analyzeVars, seriesVars, convertVars>>

\* Line 76: while idx < EXPECTED_SAMPLES and (time.time() - start) < duration;
\* the clock is read only when the first operand holds.
LoopTest ==
    /\ kpc = "test"
    /\ IF idx < EXPECTED_SAMPLES
       THEN /\ \E d \in ClockSteps : now' = now + d
            /\ kpc' = IF now' - start < Duration THEN "wait" ELSE "elapsed"
       ELSE /\ now' = now
            /\ kpc' = "elapsed"
    /\ UNCHANGED <<idx, raw_data, start, elapsed, adc, interrupted, completed, kret>>
    /\ UNCHANGED <<analyzeVars, seriesVars, convertVars>>

\* Line 77: ADC.ADS1263_WaitDRDY()
WaitDRDY ==
    /\ kpc = "wait"
    /\ kpc' = "read"
    /\ UNCHANGED <<idx, raw_data, start, now, elapsed, adc, interrupted, completed, kret>>
    /\ UNCHANGED <<analyzeVars, seriesVars, convertVars>>

\* Line 78: raw_data[idx] = ADC.ADS1263_Read_ADC_Data()
ReadSample ==
    /\ kpc = "read"
    /\ kpc' = "incr"
    /\ \E c \in SampleCodes : raw_data' = [raw_data EXCEPT ![idx + 1] = c]
    /\ UNCHANGED <<idx, start, now, elapsed, adc, interrupted, completed, kret>>
    /\ UNCHANGED <<analyzeVars, seriesVars, convertVars>>

\* Line 79: idx += 1; the sample is now stored and counted.
Increment ==
    /\ kpc = "incr"
    /\ kpc' = "test"
    /\ idx' = idx + 1
    /\ completed' = completed + 1
    /\ UNCHANGED <<raw_data, start, now, elapsed, adc, interrupted, kret>>
    /\ UNCHANGED <<analyzeVars, seriesVars, convertVars>>

\* Line 81: elapsed = time.time() - start
LoopElapsed ==
    /\ kpc = "elapsed"
    /\ kpc' = "finally"
    /\ \E d \in ClockSteps : now' = now + d
    /\ elapsed' = now' - start
    /\ UNCHANGED <<idx, raw_data, start, adc, interrupted, completed, kret>>
    /\ UNCHANGED <<analyzeVars, seriesVars, convertVars>>

\* Lines 83-85: KeyboardInterrupt raised in the try block, and its handler.
KeyboardInterrupt ==
    /\ kpc \in TryBlock
    /\ interrupted' = kpc
    /\ kpc' = "finally"
    /\ \E d \in ClockSteps : now' = now + d
    /\ elapsed' = now' - start
    /\ UNCHANGED <<idx, raw_data, start, adc, completed, kret>>
    /\ UNCHANGED <<analyzeVars, seriesVars, convertVars>>

\* Lines 86-87: finally: ADC.ADS1263_Exit()
Finally ==
    /\ kpc = "finally"
    /\ kpc' = "trim"
    /\ adc' = "exited"
    /\ UNCHANGED <<idx, raw_data, start, now, elapsed, interrupted, completed, kret>>
    /\ UNCHANGED <<analyzeVars, seriesVars, convertVars>>

\* Lines 89-97: trim, convert, the achieved frequency, the report and the
\* return.  np.min and np.max of line 95 raise ValueError on an empty array.
Report(d, fs) ==
    IF d = <<>> THEN [kind |-> "raised", exc |-> "ValueError"]
    ELSE [kind |-> "returned", data |-> d, fs |-> fs]

TrimAndReturn ==
    /\ kpc = "trim"
    /\ LET trimmed == SubSeq(raw_data, 1, idx)
           volts   == RawToVoltage(trimmed, I(REF))
           fs      == R(idx, elapsed)
       IN  kret' = Report(volts, fs)
    /\ kpc' = kret'.kind
    /\ UNCHANGED <<idx, raw_data, start, now, elapsed, adc, interrupted, completed>>
    /\ UNCHANGED <<analyzeVars, seriesVars, convertVars>>

CaptureNext ==
    \/ InitADC
    \/ Configure
    \/ LoopTest
    \/ WaitDRDY
    \/ ReadSample
    \/ Increment
    \/ LoopElapsed
    \/ KeyboardInterrupt
    \/ Finally
    \/ TrimAndReturn

----------------------------------------------------------------------------
(* The specifications.                                                      *)

Init == AnalyzeInit /\ SeriesIdle /\ ConvertIdle /\ CaptureIdle

Next == AnalyzeNext

Spec == Init /\ [][Next]_vars

InitSeries == SeriesInit /\ AnalyzeIdle /\ ConvertIdle /\ CaptureIdle

SpecSeries == InitSeries /\ [][SeriesNext]_vars

InitConvert == ConvertInit /\ AnalyzeIdle /\ SeriesIdle /\ CaptureIdle

SpecConvert == InitConvert /\ [][ConvertNext]_vars

InitCapture == CaptureInit /\ AnalyzeIdle /\ SeriesIdle /\ ConvertIdle

SpecCapture == InitCapture /\ [][CaptureNext]_vars

----------------------------------------------------------------------------
(* The properties.                                                          *)

Scored == "score" \in trace

InRange(x, lo, hi) == RLe(I(lo), x) /\ RLe(x, I(hi))

\* C1: once the pre-check is passed, for every peak count >= 0, top-3
\* fraction in [0, 1], secondary-peak count >= 0 and standard deviation >= 0,
\* the total is the sum of the four sub-scores, the spectral sub-score lies
\* in [0, 30], the power one in [0, 25], the aperiodicity one in [0, 25], the
\* dynamic-range one in [0, 20], the total in [0, 100], and the total is what
\* analyze_chaos returns.
C1_TotalIsBoundedSum ==
    (Scored /\ n_peaks >= 0 /\ InRange(top3_power, 0, 1) /\ n_sec_peaks >= 0
            /\ RGe(std, I(0)))
    => /\ total_score =
            RAdd(score_spectral, RAdd(score_power, RAdd(score_autocorr, score_dynamic)))
       /\ InRange(score_spectral, 0, 30)
       /\ InRange(score_power, 0, 25)
       /\ InRange(score_autocorr, 0, 25)
       /\ InRange(score_dynamic, 0, 20)
       /\ InRange(total_score, 0, 100)
       /\ (pc = "done" => ret = total_score)

\* A run that returned a non-integer total built from the two linear ramps.
C1_Witness ==
    /\ pc = "done" /\ Scored
    /\ branch[1] = 1 /\ branch[4] = 2
    /\ ret = total_score /\ total_score.d > 1

\* C2: a peak-to-peak amplitude strictly below 0.3 V makes analyze_chaos
\* return 0 from the pre-check, with no spectrum, autocorrelation, sub-score
\* or assessment step run; an amplitude of exactly 0.3 V (or more) goes
\* through every step of the full scoring.
C2_WeakSignalShortCircuit ==
    pc = "done" =>
        IF RLt(p2p, R(3, 10))
        THEN /\ ret = I(0)
             /\ trace = {"stats", "precheck"}
             /\ n_peaks = -1 /\ n_sec_peaks = -1 /\ top3_power = Unset
             /\ total_score = Unset /\ tier = "unset"
        ELSE /\ trace = {"stats", "precheck", "fft", "autocorr", "score", "assess"}
             /\ total_score # Unset /\ tier # "unset"
             /\ ret = total_score

\* A series with a peak-to-peak amplitude of exactly 0.3 V was fully scored.
C2_Witness ==
    /\ pc = "done" /\ p2p = R(3, 10)
    /\ "assess" \in trace /\ ret = total_score

\* C6: every peak count falls into exactly the branch of its range (below
\* 100, 100 to 499, 500 to 2000, above 2000); 100 peaks score 15, 500 peaks
\* score 30, counts in 500..2000 score 30, and a count above 2000 scores
\* max(20, 30 - 5*(count-2000)/500), never less than 20.
C6_SpectralRubric ==
    Scored =>
        /\ (branch[1] = 1) <=> (0 <= n_peaks /\ n_peaks < 100)
        /\ (branch[1] = 2) <=> (100 <= n_peaks /\ n_peaks < 500)
        /\ (branch[1] = 3) <=> (500 <= n_peaks /\ n_peaks <= 2000)
        /\ (branch[1] = 4) <=> (n_peaks > 2000)
        /\ (n_peaks = 100 => score_spectral = I(15))
        /\ (n_peaks = 500 => score_spectral = I(30))
        /\ (500 <= n_peaks /\ n_peaks <= 2000 => score_spectral = I(30))
        /\ (n_peaks > 2000 =>
              LET decayed == R(30 * 500 - 5 * (n_peaks - 2000), 500)
              IN  /\ score_spectral = IF RGe(decayed, I(20)) THEN decayed ELSE I(20)
                  /\ RGe(score_spectral, I(20)))

\* A run with exactly 500 peaks scored 30 in the third branch.
C6_Witness ==
    /\ pc = "done" /\ Scored
    /\ n_peaks = 500 /\ branch[1] = 3 /\ score_spectral = I(30)

\* C7: for a top-3 fraction in [0, 1] the power sub-score is 0 exactly when
\* the fraction exceeds 0.7; exactly 0.7 scores 5 in the 0.1-0.7 branch;
\* the fraction falls into exactly the branch of its range, fractions from
\* 0.001 up to and including 0.1 score 25 and fractions below 0.001 score 15.
C7_PowerRubric ==
    (Scored /\ InRange(top3_power, 0, 1)) =>
        /\ (score_power = I(0)) <=> RGt(top3_power, R(7, 10))
        /\ (top3_power = R(7, 10) => score_power = I(5) /\ branch[2] = 2)
        /\ (branch[2] = 1) <=> RGt(top3_power, R(7, 10))
        /\ (branch[2] = 2) <=> (RGt(top3_power, R(1, 10)) /\ RLe(top3_power, R(7, 10)))
        /\ (branch[2] = 3) <=> (RGe(top3_power, R(1, 1000)) /\ RLe(top3_power, R(1, 10)))
        /\ (branch[2] = 4) <=> RLt(top3_power, R(1, 1000))
        /\ (branch[2] = 2 => score_power = I(5))
        /\ (branch[2] = 3 => score_power = I(25))
        /\ (branch[2] = 4 => score_power = I(15))

\* A run with a top-3 fraction of exactly 0.7 scored 5.
C7_Witness ==
    /\ pc = "done" /\ Scored
    /\ top3_power = R(7, 10) /\ score_power = I(5)

TierNames == {"perfect", "strong", "weak", "periodic", "none"}

AllOptimum ==
    /\ 500 <= n_peaks /\ n_peaks <= 2000
    /\ RGe(top3_power, R(1, 1000)) /\ RLe(top3_power, R(1, 10))
    /\ n_sec_peaks = 0
    /\ RGe(std, R(15, 100)) /\ RLe(std, R(20, 100))

\* C8: every total of a full scoring, integer or not, is reported in exactly
\* one tier: perfect for total >= 85, strong for 70 <= total < 85, weak for
\* 50 <= total < 70, periodic for 20 <= total < 50, none below 20; the
\* all-optimum input totals 30+25+25+20 = 100 and is reported as perfect.
C8_AssessmentTiers ==
    (pc = "done" /\ "assess" \in trace) =>
        /\ tier \in TierNames
        /\ (tier = "perfect")  <=> RGe(total_score, I(85))
        /\ (tier = "strong")   <=> (RGe(total_score, I(70)) /\ RLt(total_score, I(85)))
        /\ (tier = "weak")     <=> (RGe(total_score, I(50)) /\ RLt(total_score, I(70)))
        /\ (tier = "periodic") <=> (RGe(total_score, I(20)) /\ RLt(total_score, I(50)))
        /\ (tier = "none")     <=> RLt(total_score, I(20))
        /\ (AllOptimum =>
              /\ score_spectral = I(30) /\ score_power = I(25)
              /\ score_autocorr = I(25) /\ score_dynamic = I(20)
              /\ total_score = I(100) /\ tier = "perfect")

\* The all-optimum input (800 peaks, top-3 0.02, no secondary peak, std 0.18)
\* was assessed.
C8_Witness ==
    /\ pc = "done" /\ "assess" \in trace
    /\ n_peaks = 800 /\ top3_power = R(2, 100) /\ n_sec_peaks = 0 /\ std = R(18, 100)
    /\ total_score = I(100) /\ tier = "perfect"

\* A sub-score as a fraction of its own maximum.
Fractions == <<RDiv(score_spectral, I(30)), RDiv(score_power, I(25)),
               RDiv(score_autocorr, I(25)), RDiv(score_dynamic, I(20))>>

\* Sub-score k (1 spectral, 2 power, 3 aperiodicity, 4 dynamic range) has the
\* smallest fraction, ties included.
Weakest(k) == \A j \in 1..4 : RLe(Fractions[k], Fractions[j])

\* C10 as stated: in the strong tier the tip is 'reduce periodicity' only
\* when the aperiodicity sub-score is the weakest, 'increase complexity' only
\* when the spectral sub-score is the weakest, and no tip otherwise.
C10_TipFollowsWeakest ==
    (pc = "done" /\ tier = "strong") =>
        /\ tip \in {"reduce periodicity", "increase complexity", "nearly perfect"}
        /\ (tip = "reduce periodicity" => Weakest(3))
        /\ (tip = "increase complexity" => Weakest(1))

\* C10 as amended: in the strong tier the tip is 'reduce periodicity' exactly
\* when the aperiodicity sub-score is below 20, 'increase complexity' exactly
\* when the aperiodicity sub-score is at least 20 and the spectral sub-score
\* is below 25, and no tip ('nearly perfect') otherwise; the sub-score that
\* selects the tip need not be the weakest.
C10_TipFollowsThresholds ==
    (pc = "done" /\ tier = "strong") =>
        /\ RGe(total_score, I(70)) /\ RLt(total_score, I(85))
        /\ (tip = "reduce periodicity") <=> RLt(score_autocorr, I(20))
        /\ (tip = "increase complexity") <=>
              (RGe(score_autocorr, I(20)) /\ RLt(score_spectral, I(25)))
        /\ (tip = "nearly perfect") <=>
              (RGe(score_autocorr, I(20)) /\ RGe(score_spectral, I(25)))

\* A strong-tier run told to reduce periodicity although the dynamic-range
\* sub-score is the weaker one.
C10_Witness ==
    /\ pc = "done" /\ tier = "strong"
    /\ tip = "reduce periodicity"
    /\ RLt(Fractions[4], Fractions[3])

IsConstant(x) == \A i, j \in DOMAIN x : x[i] = x[j]

\* C3: a series whose samples are all equal makes analyze_chaos return 0 as
\* a weak signal, and no normalising division (by autocorr[0], by the total
\* spectral power) is executed with a zero divisor.
C3_NoZeroDivisor ==
    /\ (spc \in {"done", "scoring"} /\ IsConstant(data)) =>
          (spc = "done" /\ sret = I(0) /\ divisions = {})
    /\ \A dv \in divisions : ~dv.zero

\* Bit 31 of a code, read from its two's-complement word.
SignBitSet(code) == ((code % (2 ^ WordBits)) \div FullScale) = 1

\* The scalar reference conversion of the claim.
ScalarReference(code, ref) ==
    IF SignBitSet(code)
    THEN RNeg(RSub(RMul(I(2), ref), RDiv(RMul(I(code), ref), I(FullScale))))
    ELSE RDiv(RMul(I(code), ref), I(MaxCode))

\* C4: raw_to_voltage agrees elementwise with the scalar reference: a code
\* with bit 31 set converts to -(2*ref - code*ref / 2^31), any other code to
\* code*ref / (2^31 - 1), each code taking the branch its sign bit selects.
C4_AgreesWithScalarReference ==
    cpc = "done" =>
        \A i \in DOMAIN raw :
            /\ mask[i] <=> SignBitSet(raw[i])
            /\ result[i] = ScalarReference(raw[i], I(REF))

C9_InterruptReturnsPartial ==
    (interrupted \in CaptureLoop /\ kpc \in {"returned", "raised"}) =>
        /\ adc = "exited"
        /\ kret.kind = "returned"
        /\ Len(kret.data) = completed
        /\ completed <= EXPECTED_SAMPLES
        /\ elapsed = now - start
        /\ kret.fs = R(completed, elapsed)

=============================================================================
